---- MODULE Spec2Model ----
(***************************************************************************)
(* Model of the _CRuntime image-inspection hook (ImageInspection.c/.h) and *)
(* of the pointer-authentication stripper (Ptrauth.c/.h).                  *)
(*                                                                         *)
(* A build is fixed by the preprocessor flags __MACH__, __ELF__ and        *)
(* __arm64e__.  The flags select which definitions of loadImages are       *)
(* compiled; the loader then maps the images, runs the static initializer  *)
(* and maps further images later.  Every call of                           *)
(* registerProtocolConformances(section, size) is recorded in `calls`.     *)
(***************************************************************************)
EXTENDS Integers, Naturals, Sequences, FiniteSets, TLC

VARIABLES
  defMACH,        \* defined(__MACH__)
  defELF,         \* defined(__ELF__)
  pc,             \* "build", "buildError", "linked", "loaded", "running",
                  \* "crashed"
  variants,       \* the definitions of loadImages the preprocessor kept
  contrib,        \* per module: bytes of real contributions to the section
  codeInSection,  \* ELF: bytes of loadImages' machine code the compiler
                  \* emitted into the metadata section (0: it is in .text)
  codeAlign,      \* ELF: the alignment the compiler gave that code
  contribBefore,  \* ELF: bytes of contributions linked into the section
                  \* ahead of that code (link order of the object files)
  sectionExecutable, \* ELF: the metadata section is mapped executable
  mem,            \* per module: the bytes of the section region as linked
  heap,           \* the set of live allocations made by this core
  images,         \* the modules mapped so far, in load order
  preloaded,      \* the modules that were mapped before loadImages first ran
  addImageFuncs,  \* number of callbacks dyld holds for "image added"
  setupCalls,     \* number of times loadImages has run
  calls,          \* the calls of registerProtocolConformances, in order
  arm64e,         \* defined(__arm64e__)
  stripIn,        \* last pointer handed to the stripper, or NoPointer
  stripOut        \* what the stripper returned for it, or NoPointer

\* What the build fixes.
build == <<defMACH, defELF, contrib, codeInSection, codeAlign, contribBefore,
           sectionExecutable>>

hookVars == <<defMACH, defELF, pc, variants, contrib, codeInSection, codeAlign, contribBefore,
              sectionExecutable, mem, heap, images,
              preloaded, addImageFuncs, setupCalls, calls>>
ptrVars  == <<arm64e, stripIn, stripOut>>
vars     == <<defMACH, defELF, pc, variants, contrib, codeInSection, codeAlign, contribBefore,
              sectionExecutable, mem, heap, images,
              preloaded, addImageFuncs, setupCalls, calls,
              arm64e, stripIn, stripOut>>

----------------------------------------------------------------------------
\* Bounds of the model.

NumModules == 3
MaxRecords == 4
MaxSetupCalls == 2
MaxCodeSize == 128
MaxCodeAlignLog2 == 5
AddrBits == 4
PacBits == 3

----------------------------------------------------------------------------
\* Sizes and addresses.

\* sizeof(uintptr_t): the type of the COFF boundary words.
WordSize == 8

\* sizeof(char): the type of the ELF boundary symbols.
CharSize == 1

\* sizeof(int32_t): the granule in which records contribute to the section.
RecordSize == 4

\* The null pointer.
NULL == 0

\* The image that contains this runtime (the one whose static initializer
\* is loadImages).
SelfImage == 1

Modules == 1..NumModules

ContribSizes == {k * RecordSize : k \in 0..MaxRecords}

RECURSIVE Pow2(_)
Pow2(n) == IF n = 0 THEN 1 ELSE 2 * Pow2(n - 1)

\* ELF: the header's top-level __asm__(".section <name>, \"a\"") leaves the
\* assembler in the metadata section.  A compiler that does not switch back
\* to .text before loadImages (gcc -O0, -Og, -O1) emits the function's
\* machine code into the metadata section; others (clang, gcc -O2) do not.
\* The size and the alignment of that code are the compiler's choice (45
\* bytes aligned 1 for gcc -O0 on x86-64, 31 for -O1, 16-byte alignment
\* under -falign-functions=16, ...): every size up to MaxCodeSize and every
\* power of two up to 2^MaxCodeAlignLog2 is a build.
LoadImagesCodeSizes == 1..MaxCodeSize
CodeAlignments == {Pow2(k) : k \in 0..MaxCodeAlignLog2}

\* Offset of the section region inside its module, and the address space
\* set aside for each module: room for the largest section region.
SecOff == WordSize
ModuleSpan ==
  SecOff + RecordSize * MaxRecords + Pow2(MaxCodeAlignLog2) + MaxCodeSize
    + RecordSize + 2 * WordSize + WordSize

ModuleStart(m) == m * ModuleSpan

\* The end of module m's mapped span: what the linker put into the image,
\* its section region and the word that follows it.
ModuleEnd(m) == ModuleStart(m) + SecOff + Len(mem[m]) + WordSize

Zeros(n) == [i \in 1..n |-> 0]
Records(n) == [i \in 1..n |-> 1]
Code(n) == [i \in 1..n |-> 2]

----------------------------------------------------------------------------
\* Compile-time selection of the format adapter.

\* Faulty selection: the COFF condition tests __MACH__ only.
SelectedVariants_notMach(mach, elf) ==
  (IF mach THEN {"MachO"} ELSE {})
    \cup (IF elf THEN {"ELF"} ELSE {})
    \cup (IF ~mach THEN {"COFF"} ELSE {})

\* ImageInspection.c: the three sections are guarded by three independent
\* #if conditions; each one that holds contributes a definition of
\* loadImages.
SelectedVariants(mach, elf) ==
  (IF mach THEN {"MachO"} ELSE {})
    \cup (IF elf THEN {"ELF"} ELSE {})
    \cup (IF ~mach /\ ~elf THEN {"COFF"} ELSE {})

\* The adapter of a build that compiled exactly one.
Format == CHOOSE f \in variants : TRUE

\* Whether the build arranges for loadImages to run at load time:
\* __attribute__((__constructor__)) for Mach-O and ELF, the pLoadImages
\* entry of the .CRT$XCIS table for COFF.
HasStaticInitEntry(fmt) == fmt \in {"MachO", "ELF", "COFF"}

----------------------------------------------------------------------------
\* Layout of the metadata section in a linked module.

\* The least multiple of a that is at least x.
AlignUp(x, a) == ((x + a - 1) \div a) * a

\* ELF: of n bytes of contributions, those linked ahead of loadImages' code.
Before(n) == IF contribBefore <= n THEN contribBefore ELSE n

\* ELF: offsets in the section of the start and the end of loadImages' code
\* and of the contributions linked after it; the linker pads up to the
\* alignment of each piece.
CodeStart(n) == AlignUp(Before(n), codeAlign)
CodeEnd(n) == CodeStart(n) + codeInSection
AfterStart(n) ==
  IF n - Before(n) > 0 THEN AlignUp(CodeEnd(n), RecordSize) ELSE CodeEnd(n)

\* The bytes of the section region of the image that holds this runtime,
\* with n bytes of contributions.
\* COFF: the word __start_sw5prtc in .sw5prtc$A, the contributions (in $B),
\* the word __stop_sw5prtc in .sw5prtc$C.
\* ELF: the contributions of the objects linked ahead of this one, padding,
\* any code of loadImages emitted into the section, padding, the
\* contributions of the objects linked after it.
\* Mach-O: the contributions.
SectionBytes(fmt, n) ==
  IF fmt = "COFF"
    THEN Zeros(WordSize) \o Records(n) \o Zeros(WordSize)
    ELSE IF fmt = "ELF" /\ codeInSection > 0
      THEN Records(Before(n))
             \o Zeros(CodeStart(n) - Before(n))
             \o Code(codeInSection)
             \o Zeros(AfterStart(n) - CodeEnd(n))
             \o Records(n - Before(n))
      ELSE Records(n)

\* Load address of the first contributed byte of module m.
FirstContribution(fmt, m) ==
  IF fmt = "COFF"
    THEN ModuleStart(m) + SecOff + WordSize
    ELSE IF fmt = "ELF" /\ m = SelfImage /\ codeInSection > 0
              /\ Before(contrib[m]) = 0
      THEN ModuleStart(m) + SecOff + AfterStart(contrib[m])
      ELSE ModuleStart(m) + SecOff

\* ELF: the linker's boundary symbols of the section named
\* swift5_protocol_conformances in the image that holds this runtime.
__start_swift5_protocol_conformances == ModuleStart(SelfImage) + SecOff
__stop_swift5_protocol_conformances ==
  __start_swift5_protocol_conformances
    + Len(SectionBytes("ELF", contrib[SelfImage]))

\* COFF: the addresses of the two static words.
__start_sw5prtc == ModuleStart(SelfImage) + SecOff
__stop_sw5prtc == __start_sw5prtc + WordSize + contrib[SelfImage]

\* Mach-O: the section table the loader sees for module m.
SectionTable(m) ==
  <<[segname |-> "__TEXT", sectname |-> "__text",
     addr |-> ModuleStart(m), size |-> SecOff]>>
  \o (IF contrib[m] > 0
        THEN <<[segname |-> "__TEXT", sectname |-> "__swift5_proto",
                addr |-> ModuleStart(m) + SecOff, size |-> contrib[m]]>>
        ELSE <<>>)

----------------------------------------------------------------------------
\* The hook.

\* One call registerProtocolConformances(section, size); `image` records the
\* module the hook was looking at.
Call(m, section, size) == [image |-> m, section |-> section, size |-> size]

\* C pointer subtraction p - q for pointers to elements of elemSize bytes.
\* It is defined only when the byte distance is a multiple of elemSize;
\* otherwise the quotient may come out rounded either way.
PtrDiff(p, q, elemSize) ==
  LET d == p - q
  IN  IF d % elemSize = 0
        THEN {d \div elemSize}
        ELSE {d \div elemSize, d \div elemSize + 1}

\* lookupSection(header, segment, section, registerFunc): the first section
\* of that name in that segment, or (NULL, 0) when there is none.
lookupSection(m, segment, section) ==
  LET tbl == SectionTable(m)
      hits == {i \in 1..Len(tbl) :
                 tbl[i].segname = segment /\ tbl[i].sectname = section}
  IN  IF hits = {}
        THEN Call(m, NULL, 0)
        ELSE LET i == CHOOSE j \in hits : \A k \in hits : j <= k
             IN  Call(m, tbl[i].addr, tbl[i].size)

\* void _loadImageCallback(const struct mach_header *header, intptr_t size)
_loadImageCallback(m) == lookupSection(m, "__TEXT", "__swift5_proto")

\* dyld, on "image added": every registered callback is called with the image.
NotifyAddImage(m, nfuncs) == [i \in 1..nfuncs |-> _loadImageCallback(m)]

\* _dyld_register_func_for_add_image(f): dyld keeps f and calls it at once
\* for every image that is already loaded, in load order.
RegisterAddImage(imgs) == [i \in 1..Len(imgs) |-> _loadImageCallback(imgs[i])]

\* Faulty macro: passes &__stop_name as the size.
SWIFT_REGISTER_SECTION_ELF_noDiff(start, stop) ==
  {Call(SelfImage, start, stop)}

\* ELF: handle(&__start_name, &__stop_name - &__start_name)
SWIFT_REGISTER_SECTION_ELF(start, stop) ==
  {Call(SelfImage, start, n) : n \in PtrDiff(stop, start, CharSize)}

\* COFF: handle((const char *)&__start_name, &__stop_name - &__start_name)
SWIFT_REGISTER_SECTION_COFF(start, stop) ==
  {Call(SelfImage, start, n) : n \in PtrDiff(stop, start, WordSize)}

Range(seq) == {seq[i] : i \in 1..Len(seq)}

\* Faulty loadImages: registers the callback and also walks the loaded
\* images itself.
loadImages_MachO_rescans ==
  /\ Format = "MachO"
  /\ addImageFuncs' = addImageFuncs + 1
  /\ calls' = calls \o RegisterAddImage(images) \o RegisterAddImage(images)
  /\ setupCalls' = setupCalls + 1
  /\ UNCHANGED <<mem, heap>>

\* Mach-O: void loadImages() { _dyld_register_func_for_add_image(...); }
loadImages_MachO ==
  /\ Format = "MachO"
  /\ addImageFuncs' = addImageFuncs + 1
  /\ calls' = calls \o RegisterAddImage(images)
  /\ setupCalls' = setupCalls + 1
  /\ UNCHANGED <<mem, heap>>

\* ELF: the call of loadImages fetches instructions from the metadata
\* section, which is mapped without execute permission: the process dies
\* with SIGSEGV before the function makes any call.
Faults == Format = "ELF" /\ codeInSection > 0 /\ ~sectionExecutable

\* Faulty loadImages: overwrites the section region of its image.
loadImages_ELF_writes ==
  /\ Format = "ELF"
  /\ IF Faults
       THEN calls' = calls
       ELSE \E c \in SWIFT_REGISTER_SECTION_ELF(
                        __start_swift5_protocol_conformances,
                        __stop_swift5_protocol_conformances) :
              calls' = Append(calls, c)
  /\ setupCalls' = setupCalls + 1
  /\ mem' = [mem EXCEPT ![SelfImage] = Zeros(Len(mem[SelfImage]) + 1)]
  /\ UNCHANGED <<addImageFuncs, heap>>

\* ELF: void loadImages() { SWIFT_REGISTER_SECTION(swift5_protocol_conformances,
\*                                                registerProtocolConformances) }
loadImages_ELF ==
  /\ Format = "ELF"
  /\ IF Faults
       THEN calls' = calls
       ELSE \E c \in SWIFT_REGISTER_SECTION_ELF(
                        __start_swift5_protocol_conformances,
                        __stop_swift5_protocol_conformances) :
              calls' = Append(calls, c)
  /\ setupCalls' = setupCalls + 1
  /\ UNCHANGED <<addImageFuncs, mem, heap>>

\* COFF: void loadImages() { SWIFT_REGISTER_SECTION(sw5prtc,
\*                                                 registerProtocolConformances) }
loadImages_COFF ==
  /\ Format = "COFF"
  /\ \E c \in SWIFT_REGISTER_SECTION_COFF(__start_sw5prtc, __stop_sw5prtc) :
       calls' = Append(calls, c)
  /\ setupCalls' = setupCalls + 1
  /\ UNCHANGED <<addImageFuncs, mem, heap>>

\* The one definition of loadImages the build holds.
loadImages == loadImages_MachO \/ loadImages_ELF \/ loadImages_COFF

----------------------------------------------------------------------------
\* Build, launch and the loader.

\* The preprocessor and the linker: a build with exactly one definition of
\* loadImages links; its modules get their section bytes.
Compile ==
  /\ pc = "build"
  /\ variants' = SelectedVariants(defMACH, defELF)
  /\ IF Cardinality(variants') = 1
       THEN /\ pc' = "linked"
            /\ mem' = [m \in Modules |->
                         IF m = SelfImage
                           THEN SectionBytes(CHOOSE f \in variants' : TRUE,
                                             contrib[m])
                           ELSE Records(contrib[m])]
       ELSE /\ pc' = "buildError"
            /\ mem' = mem
  /\ UNCHANGED <<build, heap, images, preloaded,
                 addImageFuncs, setupCalls, calls>>
  /\ UNCHANGED ptrVars

\* The process starts: the image that holds this runtime is mapped.
Launch ==
  /\ pc = "linked"
  /\ pc' = "loaded"
  /\ images' = <<SelfImage>>
  /\ UNCHANGED <<build, variants, mem, heap, preloaded,
                 addImageFuncs, setupCalls, calls>>
  /\ UNCHANGED ptrVars

\* The loader maps module m, before or after the static initializer ran, and
\* (Mach-O) notifies the registered callbacks.
Dlopen(m) ==
  /\ pc \in {"loaded", "running"}
  /\ m \notin Range(images)
  /\ images' = Append(images, m)
  /\ calls' = IF Format = "MachO"
                THEN calls \o NotifyAddImage(m, addImageFuncs)
                ELSE calls
  /\ UNCHANGED <<build, pc, variants, mem, heap, preloaded,
                 addImageFuncs, setupCalls>>
  /\ UNCHANGED ptrVars

\* The loader runs the static initializers of the image: loadImages, when the
\* build entered it as one.  The process dies when that call faults.
StaticInit ==
  /\ pc = "loaded"
  /\ pc' = IF HasStaticInitEntry(Format) /\ Faults THEN "crashed" ELSE "running"
  /\ preloaded' = Range(images)
  /\ IF HasStaticInitEntry(Format)
       THEN loadImages
       ELSE UNCHANGED <<mem, heap, addImageFuncs, setupCalls, calls>>
  /\ UNCHANGED <<build, variants, images>>
  /\ UNCHANGED ptrVars

\* A caller invokes the exported loadImages() again.
CallLoadImages ==
  /\ pc = "running"
  /\ setupCalls < MaxSetupCalls
  /\ loadImages
  /\ UNCHANGED <<build, pc, variants, images, preloaded>>
  /\ UNCHANGED ptrVars

----------------------------------------------------------------------------
\* Pointer authentication.

\* A pointer value: AddrBits address bits, above them the bit that selects
\* the address range, above it PacBits bits of signature.
LowBits == AddrBits + 1
Pointers == 0..(Pow2(LowBits + PacBits) - 1)
NoPointer == -1

\* The hardware strip (ptrauth_strip with a data key): the signature field
\* is overwritten with copies of the range-select bit.
ptrauth_strip(pointer, key) ==
  LET low == pointer % Pow2(LowBits)
      sel == low \div Pow2(AddrBits)
  IN  IF sel = 1
        THEN low + (Pow2(PacBits) - 1) * Pow2(LowBits)
        ELSE low

\* Faulty stripper: returns the pointer with its signature.
__ptrauth_strip_asda_keeps(pointer) == pointer

\* const void *__ptrauth_strip_asda(const void *pointer)
__ptrauth_strip_asda(pointer) == ptrauth_strip(pointer, "ptrauth_key_asda")

\* Stripping as a caller sees it: the function exists only under
\* defined(__arm64e__); elsewhere the pointer is used as it is.
strip(pointer) ==
  IF arm64e THEN __ptrauth_strip_asda(pointer) ELSE pointer

StripCall ==
  /\ \E p \in Pointers :
       /\ stripIn' = p
       /\ stripOut' = strip(p)
  /\ UNCHANGED arm64e
  /\ UNCHANGED hookVars

----------------------------------------------------------------------------
\* Specifications.

InitHook ==
  /\ defMACH \in BOOLEAN
  /\ defELF \in BOOLEAN
  /\ pc = "build"
  /\ variants = {}
  /\ contrib \in [Modules -> ContribSizes]
  \* Only the Mach-O hook is handed other images; the ELF and COFF hooks
  \* read nothing but the boundary symbols of their own image.
  /\ \A m \in Modules \ {SelfImage} : defMACH \/ contrib[m] = 0
  /\ codeInSection \in
       (IF defELF /\ ~defMACH THEN {0} \cup LoadImagesCodeSizes ELSE {0})
  /\ codeAlign \in (IF codeInSection > 0 THEN CodeAlignments ELSE {1})
  /\ contribBefore \in
       (IF codeInSection > 0
          THEN {b \in ContribSizes : b <= contrib[SelfImage]}
          ELSE {0})
  /\ sectionExecutable \in (IF codeInSection > 0 THEN BOOLEAN ELSE {FALSE})
  /\ mem = [m \in Modules |-> <<>>]
  /\ heap = {}
  /\ images = <<>>
  /\ preloaded = {}
  /\ addImageFuncs = 0
  /\ setupCalls = 0
  /\ calls = <<>>

Init ==
  /\ InitHook
  /\ arm64e = FALSE
  /\ stripIn = NoPointer
  /\ stripOut = NoPointer

Next ==
  \/ Compile
  \/ Launch
  \/ StaticInit
  \/ \E m \in Modules : Dlopen(m)

\* The program as built: loadImages runs only as the static initializer.
Spec == Init /\ [][Next]_vars

NextSetup ==
  \/ Compile
  \/ Launch
  \/ StaticInit
  \/ \E m \in Modules : Dlopen(m)
  \/ CallLoadImages

\* The program with callers that invoke the exported loadImages() again.
SpecSetup == Init /\ [][NextSetup]_vars

InitPtrauth ==
  /\ defMACH = TRUE
  /\ defELF = FALSE
  /\ pc = "build"
  /\ variants = {}
  /\ contrib = [m \in Modules |-> 0]
  /\ codeInSection = 0
  /\ codeAlign = 1
  /\ contribBefore = 0
  /\ sectionExecutable = FALSE
  /\ mem = [m \in Modules |-> <<>>]
  /\ heap = {}
  /\ images = <<>>
  /\ preloaded = {}
  /\ addImageFuncs = 0
  /\ setupCalls = 0
  /\ calls = <<>>
  /\ arm64e \in BOOLEAN
  /\ stripIn = NoPointer
  /\ stripOut = NoPointer

NextPtrauth == StripCall

\* The stripper applied to every pointer value, on either architecture.
SpecPtrauth == InitPtrauth /\ [][NextPtrauth]_vars

----------------------------------------------------------------------------
\* Properties.

\* The positions in `calls` of the deliveries made for module m.
CallsFor(m) == {i \in DOMAIN calls : calls[i].image = m}

\* C1: Mach-O, once loadImages has registered _loadImageCallback: every
\* module that is mapped, whether it was mapped before loadImages ran or
\* afterwards, has had exactly one delivery, every module not yet mapped has
\* had none, and dyld holds one callback.
C1_OncePerModule ==
  (pc = "running" /\ Format = "MachO") =>
    /\ addImageFuncs = 1
    /\ \A m \in Modules :
         Cardinality(CallsFor(m)) = (IF m \in Range(images) THEN 1 ELSE 0)

\* C1 witness: Mach-O, some modules mapped before loadImages ran and one
\* mapped after it, each delivered once.
C1_Witness ==
  /\ pc = "running"
  /\ Format = "MachO"
  /\ Cardinality(preloaded) >= 2
  /\ Range(images) \ preloaded # {}
  /\ \A m \in Range(images) : Cardinality(CallsFor(m)) = 1

\* C2: however often loadImages is invoked, the loader holds at most one
\* registration and no module's section is delivered more than once.
C2_SetupIdempotent ==
  pc = "running" =>
    /\ addImageFuncs <= 1
    /\ \A m \in Modules : Cardinality(CallsFor(m)) <= 1

\* C3: a module without contributions to the section is delivered with
\* length 0, in every variant.
C3_EmptySectionLengthZero ==
  \A i \in DOMAIN calls :
    contrib[calls[i].image] = 0 => calls[i].size = 0

\* C4: a module with N > 0 bytes of contributions is delivered with length N;
\* in the boundary-symbol variants the base is the address of the first
\* contributed byte.
C4_ExactLength ==
  \A i \in DOMAIN calls :
    LET c == calls[i]
        n == contrib[c.image]
    IN  n > 0 =>
          /\ c.size = n
          /\ Format \in {"ELF", "COFF"} =>
               c.section = FirstContribution(Format, c.image)

\* C5: every non-empty delivered range lies inside the address span of the
\* module it was found in.
C5_RangeInsideModule ==
  \A i \in DOMAIN calls :
    LET c == calls[i]
    IN  c.size > 0 =>
          /\ ModuleStart(c.image) <= c.section
          /\ c.section + c.size <= ModuleEnd(c.image)

\* C5 witness: a non-empty range has been delivered by the ELF hook.
C5_Witness ==
  /\ pc = "running"
  /\ Format = "ELF"
  /\ \E i \in DOMAIN calls : calls[i].size > 0

\* A value that is an address: its signature field holds copies of the
\* range-select bit.
IsAddress(p) ==
  p \div Pow2(LowBits) = ((p \div Pow2(AddrBits)) % 2) * (Pow2(PacBits) - 1)

\* The pointer that carries signature sig over address a.
Sign(a, sig) == (a % Pow2(LowBits)) + sig * Pow2(LowBits)

\* C7: the stripper returns a pointer value for every bit pattern; without
\* the hardware feature it returns its argument; with it, it leaves the
\* address bits as they were and returns A for every pointer signed over
\* address A.
C7_StripAddressPreserving ==
  stripIn # NoPointer =>
    /\ stripOut \in Pointers
    /\ ~arm64e => stripOut = stripIn
    /\ arm64e =>
         /\ stripOut % Pow2(LowBits) = stripIn % Pow2(LowBits)
         /\ \A a \in Pointers : \A sig \in 0..(Pow2(PacBits) - 1) :
              (IsAddress(a) /\ stripIn = Sign(a, sig)) => stripOut = a

\* C7 witness: on arm64e a pointer that carries a signature was stripped.
C7_Witness ==
  /\ arm64e
  /\ stripIn # NoPointer
  /\ ~IsAddress(stripIn)
  /\ IsAddress(stripOut)

\* C8: ELF and COFF: nothing is delivered before the static initializer has
\* run; once it has, exactly one delivery has been made, for the image that
\* holds the hook and at its start symbol, whatever is mapped later.
C8_StaticHookOnce ==
  (pc \in {"linked", "loaded", "running", "crashed"}
     /\ Format \in {"ELF", "COFF"}) =>
    /\ Len(calls) = (IF pc \in {"running", "crashed"} THEN 1 ELSE 0)
    /\ \A i \in DOMAIN calls :
         /\ calls[i].image = SelfImage
         /\ calls[i].section = ModuleStart(SelfImage) + SecOff

\* C9: once the modules are linked, no step of the hook or of the loader
\* changes the bytes of any module's section region or the heap.
C9_ReadOnly ==
  [][pc # "build" => (mem' = mem /\ heap' = heap)]_vars

\* C9 witness: the hook has run over a non-empty section, a further module
\* was mapped, and the section bytes are the linked ones.
C9_Witness ==
  /\ pc = "running"
  /\ Len(calls) >= 1
  /\ Len(images) > 1
  /\ contrib[SelfImage] > 0
  /\ mem[SelfImage] = SectionBytes(Format, contrib[SelfImage])
  /\ heap = {}

\* C10 as stated: every combination of the two flags compiles exactly one
\* adapter.
C10_ExactlyOneVariant ==
  pc # "build" => Cardinality(variants) = 1

\* C10 as amended: exactly one adapter is compiled unless both __MACH__ and
\* __ELF__ are defined; with both defined the Mach-O and the ELF definitions
\* are both compiled.
C10_OneVariantUnlessBoth ==
  pc # "build" =>
    IF defMACH /\ defELF
      THEN variants = {"MachO", "ELF"}
      ELSE /\ Cardinality(variants) = 1
           /\ variants = (IF defMACH THEN {"MachO"}
                          ELSE IF defELF THEN {"ELF"} ELSE {"COFF"})

\* C10 witness: neither flag defined, the COFF adapter alone was compiled.
C10_Witness ==
  /\ pc # "build"
  /\ ~defMACH
  /\ ~defELF
  /\ variants = {"COFF"}

====
